---- MODULE Spec2Model ----
(***************************************************************************)
(* Authgear -> Firebase token exchange: the POST /authgear-to-firebase     *)
(* handler of the server (src/unnamed/part_001), several requests in       *)
(* flight against one Firebase user store.                                 *)
(* The first handler of src/index.js (lines 67-186) is the same code       *)
(* without the code fields of the error responses.                         *)
(*                                                                         *)
(* A step of the model is one run of the handler between two awaits: the   *)
(* remote call it was waiting for settles, the handler resumes, runs up to *)
(* its next await (issuing that call) or up to its response.               *)
(***************************************************************************)
EXTENDS Integers, Sequences, FiniteSets, TLC

\* ------------------------------------------------------------------ bounds
NumReqs == 2          \* exchange requests in flight
MaxIdentities == 2    \* length of userDetails.data.identities (SpecData)
MaxCalls == 4         \* calls made on the client handles (SpecHandles)

Reqs == 1..NumReqs

\* ------------------------------------------------------- JavaScript values
\* undefined / null / an absent property
Undefined == "<undefined>"

\* a value in a boolean context: undefined, null and "" are falsy
Truthy(v) == v # Undefined /\ v # ""

\* a || b
Or(a, b) == IF Truthy(a) THEN a ELSE b

\* `${v}` : a template literal prints undefined as the word
TemplateStr(v) == IF v = Undefined THEN "undefined" ELSE v

\* s.startsWith(p)
StartsWith(s, p) == Len(s) >= Len(p) /\ SubSeq(s, 1, Len(p)) = p

\* const NODE_ENV = "development" unless the environment sets it
NODE_ENV == "development"

\* ------------------------------------------------- the provider's answers
\* response.data of the introspection call; data = FALSE is an empty body
NoTokenInfo == [data |-> FALSE, hasActive |-> FALSE, active |-> FALSE, sub |-> Undefined]

TokenData(hasActive, active, sub) ==
    [data |-> TRUE, hasActive |-> hasActive, active |-> active, sub |-> sub]

Subjects == {"u1", "u2"}

IntrospectData ==
    {NoTokenInfo}
    \cup {TokenData(FALSE, FALSE, s) : s \in {Undefined, "u1"}}
    \cup {TokenData(TRUE, FALSE, s) : s \in {Undefined, "u1"}}
    \cup {TokenData(TRUE, TRUE, s) : s \in Subjects \cup {Undefined}}

\* a rejected axios call: status 0 is "no response received"
AxiosError(status, message) == [status |-> status, message |-> message]

NoError == AxiosError(0, Undefined)

AxiosErrors ==
    { AxiosError(404, "Request failed with status code 404"),
      AxiosError(500, "Request failed with status code 500"),
      AxiosError(0, "timeout of 5000ms exceeded") }

\* userInfo.data
Profile(email, name) == [email |-> email, name |-> name]

NoProfile == Profile(Undefined, Undefined)

\* one entry of userDetails.data.identities
Claims(email, phone) == [present |-> TRUE, email |-> email, phone_number |-> phone]

NoClaims == [present |-> FALSE, email |-> Undefined, phone_number |-> Undefined]

Identity(type, claims) == [type |-> type, claims |-> claims]

\* the value of an identity that is not there
NoIdentity == Identity(Undefined, NoClaims)

\* userDetails.data
Details(hasIdentities, identities) ==
    [hasIdentities |-> hasIdentities, identities |-> identities]

NoDetails == Details(FALSE, <<>>)

\* ------------------------------------------------------ the Firebase side
FirebaseError(code, message) == [code |-> code, message |-> message]

UserNotFound ==
    FirebaseError("auth/user-not-found", "There is no user record for the identifier")

UidAlreadyExists ==
    FirebaseError("auth/uid-already-exists", "The user with the provided uid already exists")

\* what else the Admin SDK may throw: a rejected argument, a transport
\* failure, an exception that carries no code
BackendFaults ==
    { FirebaseError("auth/email-already-exists", "The email address is already in use"),
      FirebaseError("app/network-error", "Error while making request"),
      FirebaseError(Undefined, "socket hang up") }

NoFault == FirebaseError(Undefined, Undefined)

AttrsUnverified(email, name) ==
    [email |-> email, emailVerified |-> FALSE, displayName |-> name, disabled |-> FALSE]

Attrs(email, name) ==
    [email |-> email, emailVerified |-> TRUE, displayName |-> name, disabled |-> FALSE]

NoAttrs ==
    [email |-> Undefined, emailVerified |-> FALSE, displayName |-> Undefined, disabled |-> FALSE]

UserRecord(uid, attrs) ==
    [uid |-> uid, email |-> attrs.email, emailVerified |-> attrs.emailVerified,
     displayName |-> attrs.displayName, disabled |-> attrs.disabled]

\* the signed custom token: its payload names the uid
CustomToken(uid) == "jwt:" \o uid

\* -------------------------------------------------------------- the state
VARIABLES
    pc,            \* where each request's handler is
    authgear_token,\* req.body.authgear_token
    tokenInfo,     \* let tokenInfo
    userInfo,      \* userInfo.data
    userDetails,   \* userDetails.data
    identifier,    \* const identifier
    email,         \* const email
    name,          \* const name
    firebaseUid,   \* const firebaseUid
    response,      \* what res.status(..).json(..) sent
    sent,          \* how many responses were sent for the request
    calls,         \* the remote calls the handler issued, in order
    users,         \* the Firebase user store
    overlapped,    \* history: another request was in flight with this one
    uidsAtStart,   \* history: the uids in the store when the request arrived
    firebaseAdminInitialized, \* part_000: let firebaseAdminInitialized
    authgearClient,           \* authgear-setup.js: let authgearClient
    apps,          \* the apps registered in the firebase-admin module
    trace          \* history: the calls made on the handle modules, in order

handles == <<firebaseAdminInitialized, authgearClient, apps, trace>>

exchange == <<pc, authgear_token, tokenInfo, userInfo, userDetails, identifier, email,
              name, firebaseUid, response, sent, calls, users, overlapped, uidsAtStart>>

vars == <<pc, authgear_token, tokenInfo, userInfo, userDetails, identifier, email,
          name, firebaseUid, response, sent, calls, users, overlapped, uidsAtStart,
          firebaseAdminInitialized, authgearClient, apps, trace>>

locals == <<tokenInfo, userInfo, userDetails, identifier, email, name, firebaseUid>>

\* a remote call: settled is "pending" until it returns, then "ok" or "rejected"
Call(op, target, attrs) ==
    [op |-> op, target |-> target, attrs |-> attrs, settled |-> "pending",
     error |-> Undefined]

SettleCall(log, op, settled, code) ==
    [i \in DOMAIN log |->
        IF log[i].op = op THEN [log[i] EXCEPT !.settled = settled, !.error = code]
        ELSE log[i]]

Response(status, error, code, details) ==
    [status |-> status, success |-> FALSE, error |-> error, code |-> code,
     details |-> details, firebaseToken |-> Undefined, uid |-> Undefined,
     email |-> Undefined, name |-> Undefined, identifier |-> Undefined,
     authgearUserId |-> Undefined]

NoResponse == Response(0, Undefined, Undefined, Undefined)

Init ==
    /\ pc = [r \in Reqs |-> "idle"]
    /\ authgear_token = [r \in Reqs |-> Undefined]
    /\ tokenInfo = [r \in Reqs |-> NoTokenInfo]
    /\ userInfo = [r \in Reqs |-> NoProfile]
    /\ userDetails = [r \in Reqs |-> NoDetails]
    /\ identifier = [r \in Reqs |-> Undefined]
    /\ email = [r \in Reqs |-> Undefined]
    /\ name = [r \in Reqs |-> Undefined]
    /\ firebaseUid = [r \in Reqs |-> Undefined]
    /\ response = [r \in Reqs |-> NoResponse]
    /\ sent = [r \in Reqs |-> 0]
    /\ calls = [r \in Reqs |-> <<>>]
    /\ users = {}
    /\ overlapped = [r \in Reqs |-> FALSE]
    /\ uidsAtStart = [r \in Reqs |-> {}]
    /\ firebaseAdminInitialized = FALSE
    /\ authgearClient = Undefined
    /\ apps = 0
    /\ trace = <<>>

\* ------------------------------------------------------ the handler's code
\* userDetails.data.identities?.find(id => id.type === "login_id")
RECURSIVE Find(_)
Find(identities) ==
    IF identities = <<>> THEN NoIdentity
    ELSE IF Head(identities).type = "login_id" THEN Head(identities)
    ELSE Find(Tail(identities))

PrimaryIdentity(details) ==
    IF details.hasIdentities THEN Find(details.identities) ELSE NoIdentity

\* primaryIdentity?.claims?.email || primaryIdentity?.claims?.phone_number
ExtractIdentifier(details) ==
    LET primaryIdentity == PrimaryIdentity(details)
        claims == primaryIdentity.claims
        claimEmail == IF primaryIdentity = NoIdentity \/ ~claims.present
                      THEN Undefined ELSE claims.email
        claimPhone == IF primaryIdentity = NoIdentity \/ ~claims.present
                      THEN Undefined ELSE claims.phone_number
    IN  Or(claimEmail, claimPhone)

\* userInfo.data.email || identifier
ExtractEmailDetailFirst(profile, ident) == Or(ident, profile.email)

ExtractEmail(profile, ident) == Or(profile.email, ident)

\* userInfo.data.name || ""
ExtractName(profile) == Or(profile.name, "")

\* if (!authgear_token)
MissingTokenEmptyPasses(token) == token = Undefined

MissingToken(token) == ~Truthy(token)

\* tokenInfo?.active : the token is accepted
IsActiveAnyAnswer(info) == info.data

IsActive(info) == info.data /\ info.hasActive /\ info.active

\* if (!email)
MissingIdentifierUnchecked(mail) == FALSE

MissingIdentifier(mail) == ~Truthy(mail)

\* `authgear:${tokenInfo.sub}`
FirebaseUidNotInterpolated(sub) == "authgear:${tokenInfo.sub}"

FirebaseUid(sub) == "authgear:" \o TemplateStr(sub)

\* error.stack
Stack(error) == "Error: " \o TemplateStr(error.message) \o " at <frames>"

Details502(message) == IF NODE_ENV = "development" THEN message ELSE Undefined

\* the handler's outermost catch
OuterCatch(error) ==
    LET statusCode == IF error.code # Undefined /\ StartsWith(error.code, "auth/")
                      THEN 400 ELSE 500
        errorMessage == IF Truthy(error.code) THEN error.message
                        ELSE "Internal server error"
    IN  Response(statusCode, errorMessage, Or(error.code, "INTERNAL_ERROR"),
                 IF NODE_ENV = "development" THEN Stack(error) ELSE Undefined)

\* res.json({success: true, ...})
SuccessIdentifierAsEmail(token, uid, mail, nm, ident, sub) ==
    [status |-> 200, success |-> TRUE, error |-> Undefined, code |-> Undefined,
     details |-> Undefined, firebaseToken |-> token, uid |-> uid, email |-> ident,
     name |-> nm, identifier |-> ident, authgearUserId |-> sub]

Success(token, uid, mail, nm, ident, sub) ==
    [status |-> 200, success |-> TRUE, error |-> Undefined, code |-> Undefined,
     details |-> Undefined, firebaseToken |-> token, uid |-> uid, email |-> mail,
     name |-> nm, identifier |-> ident, authgearUserId |-> sub]

\* res.status(..).json(..) and the handler returns
RespondDropped(r, resp) ==
    /\ UNCHANGED <<response, sent>>
    /\ pc' = [pc EXCEPT ![r] = "done"]

Respond(r, resp) ==
    /\ response' = [response EXCEPT ![r] = resp]
    /\ sent' = [sent EXCEPT ![r] = @ + 1]
    /\ pc' = [pc EXCEPT ![r] = "done"]

InFlight(r) == pc[r] \notin {"idle", "done"}

\* --------------------------------------------------------------- requests
BodyTokens == {Undefined, "", "tokA"}

\* the request arrives: validate input, then call the introspection endpoint
Receive(r, env) ==
    /\ pc[r] = "idle"
    /\ UNCHANGED handles
    /\ \E token \in env.tokens :
        /\ authgear_token' = [authgear_token EXCEPT ![r] = token]
        /\ uidsAtStart' = [uidsAtStart EXCEPT ![r] = {u.uid : u \in users}]
        /\ IF MissingToken(token)
           THEN /\ Respond(r, Response(400, "Missing required field: authgear_token",
                                       "MISSING_TOKEN", Undefined))
                /\ UNCHANGED <<calls, overlapped>>
           ELSE /\ calls' = [calls EXCEPT ![r] = Append(@, Call("introspect", token, NoAttrs))]
                /\ pc' = [pc EXCEPT ![r] = "introspect"]
                /\ overlapped' = [q \in Reqs |->
                                    IF q = r THEN \E o \in Reqs \ {r} : InFlight(o)
                                    ELSE overlapped[q] \/ InFlight(q)]
                /\ UNCHANGED <<response, sent>>
        /\ UNCHANGED <<locals, users>>

\* the catch around the introspection call
IntrospectFailureRethrown(err) ==
    OuterCatch([code |-> Undefined, message |-> err.message])

IntrospectFailure(err) ==
    IF err.status = 404
    THEN Response(502, "Authgear endpoint not found - check configuration",
                  "AUTHGEAR_ENDPOINT_NOT_FOUND", Undefined)
    ELSE Response(502, "Failed to verify token with Authgear",
                  "AUTHGEAR_ERROR", Details502(err.message))

\* the introspection call settles: rejected (err # NoError) or answered
IntrospectReturns(r, env) ==
    /\ pc[r] = "introspect"
    /\ UNCHANGED handles
    /\ \E err \in env.errors \cup {NoError}, data \in env.introspect :
        /\ IF err # NoError
           THEN /\ calls' = [calls EXCEPT ![r] = SettleCall(@, "introspect", "rejected", Undefined)]
                /\ Respond(r, IntrospectFailure(err))
                /\ UNCHANGED tokenInfo
           ELSE /\ tokenInfo' = [tokenInfo EXCEPT ![r] = data]
                /\ IF ~IsActive(data)
                   THEN /\ calls' = [calls EXCEPT ![r] = SettleCall(@, "introspect", "ok", Undefined)]
                        /\ Respond(r, Response(401, "Invalid or expired token",
                                               "INVALID_TOKEN", Undefined))
                   ELSE /\ calls' = [calls EXCEPT ![r] =
                                SettleCall(@, "introspect", "ok", Undefined)
                                \o << Call("userinfo", authgear_token[r], NoAttrs),
                                      Call("userdetails", TemplateStr(data.sub), NoAttrs) >>]
                        /\ pc' = [pc EXCEPT ![r] = "lookups"]
                        /\ UNCHANGED <<response, sent>>
        /\ UNCHANGED <<authgear_token, userInfo, userDetails, identifier, email, name,
                       firebaseUid, users, overlapped, uidsAtStart>>

\* await Promise.all([userinfo, users/sub]) throws when either lookup rejects
LookupsRejectedProfileOnly(perr, derr) == perr # NoError

LookupsRejected(perr, derr) == perr # NoError \/ derr # NoError

\* Promise.all over the two lookups settles: it rejects with the first rejection,
\* else both answers are destructured, the identity is extracted and updateUser
\* is called
LookupsSettle(r, env) ==
    /\ pc[r] = "lookups"
    /\ UNCHANGED handles
    /\ \E perr \in env.errors \cup {NoError}, derr \in env.errors \cup {NoError},
          profile \in env.profiles, details \in env.details :
        /\ LET settled == SettleCall(
                             SettleCall(calls[r], "userinfo",
                                        IF perr = NoError THEN "ok" ELSE "rejected", Undefined),
                             "userdetails",
                             IF derr = NoError THEN "ok" ELSE "rejected", Undefined)
               ident == ExtractIdentifier(details)
               mail == ExtractEmail(profile, ident)
               nm == ExtractName(profile)
               uid == FirebaseUid(tokenInfo[r].sub)
           IN  IF LookupsRejected(perr, derr)
               THEN /\ \E first \in {perr, derr} \ {NoError} :
                          Respond(r, Response(502, "Failed to fetch user details from Authgear",
                                              "AUTHGEAR_USER_DETAILS_ERROR",
                                              Details502(first.message)))
                    /\ calls' = [calls EXCEPT ![r] = settled]
                    /\ UNCHANGED <<userInfo, userDetails, identifier, email, name, firebaseUid>>
               ELSE /\ userInfo' = [userInfo EXCEPT ![r] = profile]
                    /\ userDetails' = [userDetails EXCEPT ![r] = details]
                    /\ identifier' = [identifier EXCEPT ![r] = ident]
                    /\ email' = [email EXCEPT ![r] = mail]
                    /\ name' = [name EXCEPT ![r] = nm]
                    /\ IF MissingIdentifier(mail)
                       THEN /\ Respond(r, Response(400, "No email or phone number found for user",
                                                   "MISSING_USER_IDENTIFIER", Undefined))
                            /\ calls' = [calls EXCEPT ![r] = settled]
                            /\ UNCHANGED firebaseUid
                       ELSE /\ firebaseUid' = [firebaseUid EXCEPT ![r] = uid]
                            /\ calls' = [calls EXCEPT ![r] =
                                    Append(settled, Call("updateUser", uid, Attrs(mail, nm)))]
                            /\ pc' = [pc EXCEPT ![r] = "update"]
                            /\ UNCHANGED <<response, sent>>
        /\ UNCHANGED <<authgear_token, tokenInfo, users, overlapped, uidsAtStart>>

\* ------------------------------------------------- the Firebase user store
HasUser(store, uid) == \E u \in store : u.uid = uid

\* admin.auth().updateUser(uid, attrs) on a store that holds uid
UpdatedStore(store, uid, attrs) ==
    {IF u.uid = uid THEN UserRecord(uid, attrs) ELSE u : u \in store}

\* admin.auth().createUser({uid, ...attrs}) on a store that does not hold uid
CreatedStore(store, uid, attrs) == store \cup {UserRecord(uid, attrs)}

\* what updateUser answers: NoFault is success
UpdateOutcome(store, uid, fault) ==
    IF fault # NoFault THEN fault
    ELSE IF HasUser(store, uid) THEN NoFault
    ELSE UserNotFound

\* what createUser answers
CreateOutcome(store, uid, fault) ==
    IF fault # NoFault THEN fault
    ELSE IF HasUser(store, uid) THEN UidAlreadyExists
    ELSE NoFault

\* the catch around updateUser: only the not-found code falls back to createUser
FallsBackToCreateAlways(error) == TRUE

FallsBackToCreateOnAuthError(error) ==
    error.code # Undefined /\ StartsWith(error.code, "auth/")

FallsBackToCreate(error) == error.code = "auth/user-not-found"

\* the call made in the catch of updateUser: admin.auth().createUser({uid, ...})
FallbackCallDropsName(uid, attrs) == Call("createUser", uid, Attrs(attrs.email, ""))

FallbackCallRetriesUpdate(uid, attrs) == Call("updateUser", uid, attrs)

FallbackCall(uid, attrs) == Call("createUser", uid, attrs)

\* updateUser settles; on success createCustomToken is called, on not-found
\* createUser is called, any other error is rethrown to the outer catch
UpdateUserReturns(r, env) ==
    /\ pc[r] = "update"
    /\ UNCHANGED handles
    /\ \E fault \in env.faults \cup {NoFault} :
        /\ LET uid == firebaseUid[r]
               attrs == Attrs(email[r], name[r])
               outcome == UpdateOutcome(users, uid, fault)
           IN  IF outcome = NoFault
               THEN /\ users' = UpdatedStore(users, uid, attrs)
                    /\ calls' = [calls EXCEPT ![r] =
                            Append(SettleCall(@, "updateUser", "ok", Undefined),
                                   Call("createCustomToken", uid, NoAttrs))]
                    /\ pc' = [pc EXCEPT ![r] = "mint"]
                    /\ UNCHANGED <<response, sent>>
               ELSE IF FallsBackToCreate(outcome)
               THEN /\ calls' = [calls EXCEPT ![r] =
                            Append(SettleCall(@, "updateUser", "rejected", outcome.code),
                                   FallbackCall(uid, attrs))]
                    /\ pc' = [pc EXCEPT ![r] = "create"]
                    /\ UNCHANGED <<users, response, sent>>
               ELSE /\ calls' = [calls EXCEPT ![r] =
                            SettleCall(@, "updateUser", "rejected", outcome.code)]
                    /\ Respond(r, OuterCatch(outcome))
                    /\ UNCHANGED users
        /\ UNCHANGED <<authgear_token, locals, overlapped, uidsAtStart>>

\* createUser settles; on success createCustomToken is called, any error goes
\* to the outer catch
CreateUserReturns(r, env) ==
    /\ pc[r] = "create"
    /\ UNCHANGED handles
    /\ \E fault \in env.faults \cup {NoFault} :
        /\ LET uid == firebaseUid[r]
               attrs == Attrs(email[r], name[r])
               outcome == CreateOutcome(users, uid, fault)
           IN  IF outcome = NoFault
               THEN /\ users' = CreatedStore(users, uid, attrs)
                    /\ calls' = [calls EXCEPT ![r] =
                            Append(SettleCall(@, "createUser", "ok", Undefined),
                                   Call("createCustomToken", uid, NoAttrs))]
                    /\ pc' = [pc EXCEPT ![r] = "mint"]
                    /\ UNCHANGED <<response, sent>>
               ELSE /\ calls' = [calls EXCEPT ![r] =
                            SettleCall(@, "createUser", "rejected", outcome.code)]
                    /\ Respond(r, OuterCatch(outcome))
                    /\ UNCHANGED users
        /\ UNCHANGED <<authgear_token, locals, overlapped, uidsAtStart>>

\* createCustomToken settles; the success response is sent, or the error goes
\* to the outer catch
MintReturns(r, env) ==
    /\ pc[r] = "mint"
    /\ UNCHANGED handles
    /\ \E fault \in env.faults \cup {NoFault} :
        /\ IF fault = NoFault
           THEN /\ calls' = [calls EXCEPT ![r] =
                        SettleCall(@, "createCustomToken", "ok", Undefined)]
                /\ Respond(r, Success(CustomToken(firebaseUid[r]), firebaseUid[r], email[r],
                                      name[r], identifier[r], tokenInfo[r].sub))
           ELSE /\ calls' = [calls EXCEPT ![r] =
                        SettleCall(@, "createCustomToken", "rejected", fault.code)]
                /\ Respond(r, OuterCatch(fault))
        /\ UNCHANGED <<authgear_token, locals, users, overlapped, uidsAtStart>>

\* ------------------------------------------ index.js, the second handler
\* POST /authgear-to-firebase of the second server of index.js: introspection,
\* one profile lookup, createCustomToken; every error goes to one catch

\* catch (error) for an axios error: error.response, else error.request
TimeoutCatch(err) ==
    IF err.status # 0
    THEN Response(502, "Authgear service error", "AUTHGEAR_ERROR", Details502(err.message))
    ELSE Response(504, "Authgear service timeout", "AUTHGEAR_TIMEOUT", Undefined)

\* catch (error) for an error that is no axios error
OtherCatch == Response(500, "Internal server error", "INTERNAL_ERROR", Undefined)

ReceiveIndex(r, env) ==
    /\ pc[r] = "idle"
    /\ UNCHANGED handles
    /\ \E token \in env.tokens :
        /\ authgear_token' = [authgear_token EXCEPT ![r] = token]
        /\ IF MissingToken(token)
           THEN /\ Respond(r, Response(400, "Missing authgear_token", "MISSING_TOKEN", Undefined))
                /\ UNCHANGED calls
           ELSE /\ calls' = [calls EXCEPT ![r] = Append(@, Call("introspect", token, NoAttrs))]
                /\ pc' = [pc EXCEPT ![r] = "index_introspect"]
                /\ UNCHANGED <<response, sent>>
        /\ UNCHANGED <<locals, users, overlapped, uidsAtStart>>

IntrospectReturnsIndex(r, env) ==
    /\ pc[r] = "index_introspect"
    /\ UNCHANGED handles
    /\ \E err \in env.errors \cup {NoError}, data \in env.introspect :
        /\ IF err # NoError
           THEN /\ calls' = [calls EXCEPT ![r] = SettleCall(@, "introspect", "rejected", Undefined)]
                /\ Respond(r, TimeoutCatch(err))
                /\ UNCHANGED tokenInfo
           ELSE /\ tokenInfo' = [tokenInfo EXCEPT ![r] = data]
                /\ IF ~IsActive(data)
                   THEN /\ calls' = [calls EXCEPT ![r] = SettleCall(@, "introspect", "ok", Undefined)]
                        /\ Respond(r, Response(401, "Invalid or expired token",
                                               "INVALID_TOKEN", Undefined))
                   ELSE /\ calls' = [calls EXCEPT ![r] =
                                Append(SettleCall(@, "introspect", "ok", Undefined),
                                       Call("userinfo", authgear_token[r], NoAttrs))]
                        /\ pc' = [pc EXCEPT ![r] = "index_userinfo"]
                        /\ UNCHANGED <<response, sent>>
        /\ UNCHANGED <<authgear_token, userInfo, userDetails, identifier, email, name,
                       firebaseUid, users, overlapped, uidsAtStart>>

\* const { sub, email, name } = userInfoResponse.data
UserInfoReturnsIndex(r, env) ==
    /\ pc[r] = "index_userinfo"
    /\ UNCHANGED handles
    /\ \E err \in env.errors \cup {NoError}, profile \in env.profiles,
          sub \in Subjects \cup {Undefined} :
        /\ IF err # NoError
           THEN /\ calls' = [calls EXCEPT ![r] = SettleCall(@, "userinfo", "rejected", Undefined)]
                /\ Respond(r, TimeoutCatch(err))
                /\ UNCHANGED <<userInfo, email, name, firebaseUid>>
           ELSE /\ userInfo' = [userInfo EXCEPT ![r] = profile]
                /\ email' = [email EXCEPT ![r] = profile.email]
                /\ name' = [name EXCEPT ![r] = profile.name]
                /\ firebaseUid' = [firebaseUid EXCEPT ![r] = FirebaseUid(sub)]
                /\ calls' = [calls EXCEPT ![r] =
                        Append(SettleCall(@, "userinfo", "ok", Undefined),
                               Call("createCustomToken", FirebaseUid(sub), NoAttrs))]
                /\ pc' = [pc EXCEPT ![r] = "index_mint"]
                /\ UNCHANGED <<response, sent>>
        /\ UNCHANGED <<authgear_token, tokenInfo, userDetails, identifier, users,
                       overlapped, uidsAtStart>>

MintReturnsIndex(r, env) ==
    /\ pc[r] = "index_mint"
    /\ UNCHANGED handles
    /\ \E fault \in env.faults \cup {NoFault} :
        /\ IF fault = NoFault
           THEN /\ calls' = [calls EXCEPT ![r] =
                        SettleCall(@, "createCustomToken", "ok", Undefined)]
                /\ Respond(r, Success(CustomToken(firebaseUid[r]), firebaseUid[r], email[r],
                                      name[r], Undefined, Undefined))
           ELSE /\ calls' = [calls EXCEPT ![r] =
                        SettleCall(@, "createCustomToken", "rejected", fault.code)]
                /\ Respond(r, OtherCatch)
        /\ UNCHANGED <<authgear_token, locals, users, overlapped, uidsAtStart>>

\* ------------------------------------ the initialise-once client handles
\* src/unnamed/part_000 (firebase-admin) and src/authgear-setup.js: a module
\* variable remembers that the client was set up; every function runs to its
\* return or throw without yielding, so a call is one step

\* require('firebase-admin'): the module object the functions return
Admin == "firebase-admin"

\* a finished call: attempted says the call ran the client's set-up code
Returned(fn, value, attempted) ==
    [fn |-> fn, threw |-> FALSE, value |-> value, attempted |-> attempted]

Thrown(fn, value, attempted) ==
    [fn |-> fn, threw |-> TRUE, value |-> value, attempted |-> attempted]

\* what can go wrong in admin.initializeApp({credential: admin.credential.cert(..)})
NoInitFault == "<none>"

InitFaults ==
    {"TypeError: Cannot read properties of undefined (reading 'replace')",
     "app/invalid-credential"}

\* admin.initializeApp: a second default app is refused by the SDK
InitializeApp(registered, fault) ==
    IF fault # NoInitFault THEN [threw |-> TRUE, value |-> fault]
    ELSE IF registered > 0 THEN [threw |-> TRUE, value |-> "app/duplicate-app"]
    ELSE [threw |-> FALSE, value |-> Admin]

\* new Authgear.default({endpoint, clientID}): the module binds the name
\* authgear (line 1), the name Authgear is bound nowhere
NewAuthgear == [threw |-> TRUE, value |-> "ReferenceError: Authgear is not defined"]

\* if (firebaseAdminInitialized) return admin
AlreadyInitializedNever(flag) == FALSE

AlreadyInitialized(flag) == flag

initializeFirebaseAdmin ==
    /\ Len(trace) < MaxCalls
    /\ UNCHANGED <<exchange, authgearClient>>
    /\ IF AlreadyInitialized(firebaseAdminInitialized)
       THEN /\ trace' = Append(trace, Returned("initializeFirebaseAdmin", Admin, FALSE))
            /\ UNCHANGED <<firebaseAdminInitialized, apps>>
       ELSE \E fault \in InitFaults \cup {NoInitFault} :
                LET made == InitializeApp(apps, fault)
                IN  IF made.threw
                    THEN /\ trace' = Append(trace, Thrown("initializeFirebaseAdmin",
                                                          made.value, TRUE))
                         /\ UNCHANGED <<firebaseAdminInitialized, apps>>
                    ELSE /\ apps' = apps + 1
                         /\ firebaseAdminInitialized' = TRUE
                         /\ trace' = Append(trace, Returned("initializeFirebaseAdmin",
                                                            Admin, TRUE))

getAdmin ==
    /\ Len(trace) < MaxCalls
    /\ UNCHANGED <<exchange, firebaseAdminInitialized, authgearClient, apps>>
    /\ trace' = Append(trace,
                       IF ~firebaseAdminInitialized
                       THEN Thrown("getAdmin", "Firebase Admin not initialized", FALSE)
                       ELSE Returned("getAdmin", Admin, FALSE))

initializeAuthgear ==
    /\ Len(trace) < MaxCalls
    /\ UNCHANGED <<exchange, firebaseAdminInitialized, apps>>
    /\ IF Truthy(authgearClient)
       THEN /\ trace' = Append(trace, Returned("initializeAuthgear", authgearClient, FALSE))
            /\ UNCHANGED authgearClient
       ELSE LET made == NewAuthgear
            IN  IF made.threw
                THEN /\ trace' = Append(trace, Thrown("initializeAuthgear", made.value, TRUE))
                     /\ UNCHANGED authgearClient
                ELSE /\ authgearClient' = made.value
                     /\ trace' = Append(trace, Returned("initializeAuthgear",
                                                        made.value, TRUE))

getAuthgearClient ==
    /\ Len(trace) < MaxCalls
    /\ UNCHANGED <<exchange, firebaseAdminInitialized, authgearClient, apps>>
    /\ trace' = Append(trace,
                       IF ~Truthy(authgearClient)
                       THEN Thrown("getAuthgearClient", "Authgear client not initialized",
                                   FALSE)
                       ELSE Returned("getAuthgearClient", authgearClient, FALSE))

\* -------------------------------------------------------- the environment
\* what the request body, the provider and the backend may answer

\* SpecData: every shape of every answer
AllProfiles == {Profile(e, n) : e \in {Undefined, "", "a@x.com"}, n \in {Undefined, "Jo"}}

AllClaims ==
    {NoClaims} \cup {Claims(e, p) : e \in {Undefined, "b@x.com"}, p \in {Undefined, "+15550100"}}

AllIdentities == {Identity(t, c) : t \in {"login_id", "oauth"}, c \in AllClaims}

AllDetails ==
    {NoDetails}
    \cup {Details(TRUE, l) : l \in UNION {[1..n -> AllIdentities] : n \in 0..MaxIdentities}}

FullEnv ==
    [tokens |-> BodyTokens, errors |-> AxiosErrors, introspect |-> IntrospectData,
     profiles |-> AllProfiles, details |-> AllDetails, faults |-> BackendFaults]

\* Spec: the answers that take concurrent requests for two subjects down each
\* branch of the handler
RaceEnv ==
    [tokens |-> {Undefined, "tokA"},
     errors |-> {AxiosError(0, "timeout of 5000ms exceeded")},
     introspect |-> {TokenData(TRUE, FALSE, Undefined)}
                    \cup {TokenData(TRUE, TRUE, s) : s \in Subjects},
     profiles |-> {Profile("a@x.com", "Jo"), NoProfile},
     details |-> {Details(TRUE, <<Identity("login_id", Claims("b@x.com", Undefined))>>)},
     faults |-> {FirebaseError("auth/email-already-exists", "The email address is already in use")}]

\* SpecPair: one request body and one identity, every backend failure
PairEnv ==
    [tokens |-> {"tokA"},
     errors |-> {},
     introspect |-> {TokenData(TRUE, TRUE, "u1")},
     profiles |-> {Profile("a@x.com", "Jo")},
     details |-> {NoDetails},
     faults |-> BackendFaults]

\* SpecLive: one subject, one answer for each way a request can end
LiveEnv ==
    [tokens |-> {Undefined, "tokA"},
     errors |-> {AxiosError(0, "timeout of 5000ms exceeded")},
     introspect |-> {TokenData(TRUE, FALSE, Undefined), TokenData(TRUE, TRUE, "u1")},
     profiles |-> {Profile("a@x.com", "Jo"), NoProfile},
     details |-> {NoDetails},
     faults |-> {FirebaseError("app/network-error", "Error while making request")}]

\* ------------------------------------------------------ the specifications
Step(rs, env) ==
    \E r \in rs :
        \/ Receive(r, env)
        \/ IntrospectReturns(r, env)
        \/ LookupsSettle(r, env)
        \/ UpdateUserReturns(r, env)
        \/ CreateUserReturns(r, env)
        \/ MintReturns(r, env)

\* concurrent requests
Next == Step(Reqs, RaceEnv)

Spec == Init /\ [][Next]_vars

\* a single request, over every shape of the answers
NextData == Step({1}, FullEnv)

SpecData == Init /\ [][NextData]_vars

\* a pending remote call of request r settles and the handler resumes
Returns(r, env) ==
    \/ IntrospectReturns(r, env)
    \/ LookupsSettle(r, env)
    \/ UpdateUserReturns(r, env)
    \/ CreateUserReturns(r, env)
    \/ MintReturns(r, env)

\* every remote call eventually returns, fails or times out: the axios calls
\* carry timeout: 5000, the Firebase Admin calls settle their promise
NextLive == Step(Reqs, LiveEnv)

SpecLive == Init /\ [][NextLive]_vars /\ \A r \in Reqs : WF_vars(Returns(r, LiveEnv))

\* runs of the same request that differ only in what the backend answers
NextPair == Step(Reqs, PairEnv)

SpecPair == Init /\ [][NextPair]_vars

\* the second handler of index.js
StepIndex(rs, env) ==
    \E r \in rs :
        \/ ReceiveIndex(r, env)
        \/ IntrospectReturnsIndex(r, env)
        \/ UserInfoReturnsIndex(r, env)
        \/ MintReturnsIndex(r, env)

\* a single request, served by either handler
NextVerify == Step({1}, FullEnv) \/ StepIndex({1}, FullEnv)

SpecVerify == Init /\ [][NextVerify]_vars

\* any sequence of calls on the two handle modules
NextHandles ==
    \/ initializeFirebaseAdmin
    \/ getAdmin
    \/ initializeAuthgear
    \/ getAuthgearClient

SpecHandles == Init /\ [][NextHandles]_vars

\* ----------------------------------------------------------------- claims
ProviderOps == {"introspect", "userinfo", "userdetails"}

BackendOps == {"updateUser", "createUser", "createCustomToken"}

CallsOf(r, ops) == {i \in DOMAIN calls[r] : calls[r][i].op \in ops}

Made(r, op) == CallsOf(r, {op}) # {}

Answered(r, op) == \E i \in CallsOf(r, {op}) : calls[r][i].settled = "ok"

Rejected(r, op) == \E i \in CallsOf(r, {op}) : calls[r][i].settled = "rejected"

\* a value the provider actually supplied
Supplied(v) == v # Undefined /\ v # ""

\* the introspection answer does not say active: true
SaysInactive(info) == ~info.data \/ ~info.hasActive \/ ~info.active

\* the backend failed for a reason of its own: not the not-found signal, not
\* the uniqueness violation
BackendFaulted(r) ==
    \E i \in CallsOf(r, BackendOps) :
        /\ calls[r][i].settled = "rejected"
        /\ calls[r][i].error \notin {"auth/user-not-found", "auth/uid-already-exists"}

\* C1: a request whose introspection answer is not active: true makes no
\* updateUser, createUser or createCustomToken call
C1_InactiveNoProvisioning ==
    \A r \in Reqs :
        (Answered(r, "introspect") /\ SaysInactive(tokenInfo[r]))
            => CallsOf(r, BackendOps) = {}

C1_Witness ==
    \E r \in Reqs :
        /\ pc[r] = "done"
        /\ Answered(r, "introspect")
        /\ tokenInfo[r].data /\ tokenInfo[r].hasActive /\ ~tokenInfo[r].active
        /\ response[r].status = 401

\* C2: two requests with valid tokens for the same never-provisioned subject
\* both end with a success response, whatever the interleaving of their
\* updateUser and createUser calls (the backend having no fault of its own)
C2_ConcurrentFirstExchangeBothSucceed ==
    \A r, q \in Reqs :
        ( /\ r # q
          /\ pc[r] = "done" /\ pc[q] = "done"
          /\ Made(r, "updateUser") /\ Made(q, "updateUser")
          /\ tokenInfo[r].sub # Undefined
          /\ tokenInfo[r].sub = tokenInfo[q].sub
          /\ firebaseUid[r] \notin uidsAtStart[r]
          /\ firebaseUid[q] \notin uidsAtStart[q]
          /\ ~BackendFaulted(r) /\ ~BackendFaulted(q) )
            => (response[r].success /\ response[q].success)

\* C3: the store holds at most one record per internal subject id, every
\* record is keyed by the id of a subject some request exchanged, and a
\* request that returned success has exactly one record for its subject
RecordsFor(sub) == {u \in users : u.uid = "authgear:" \o TemplateStr(sub)}

C3_OneRecordPerSubject ==
    /\ \A u, v \in users : u.uid = v.uid => u = v
    /\ \A u \in users : \E r \in Reqs : Made(r, "updateUser") /\ u \in RecordsFor(tokenInfo[r].sub)
    /\ \A r \in Reqs : Cardinality(RecordsFor(tokenInfo[r].sub)) <= 1
    /\ \A r \in Reqs :
          response[r].success => Cardinality(RecordsFor(tokenInfo[r].sub)) = 1

C3_Witness ==
    \E r, q \in Reqs :
        /\ r # q
        /\ tokenInfo[r].sub = "u1" /\ tokenInfo[q].sub = "u1"
        /\ response[r].success /\ response[q].success
        /\ overlapped[r]
        /\ Cardinality(RecordsFor("u1")) = 1

\* C4: a request repeated for a subject whose record already exists, with no
\* concurrent request, makes no createUser call; it returns success (the
\* backend having no fault of its own) and its credential is minted for the
\* id the earlier request's response named
RepeatedExchange(r) ==
    /\ Made(r, "updateUser")
    /\ firebaseUid[r] \in uidsAtStart[r]
    /\ ~overlapped[r]

C4_RepeatedExchangeIdempotent ==
    \A r \in Reqs :
        RepeatedExchange(r) =>
            /\ ~Made(r, "createUser")
            /\ (pc[r] = "done" /\ ~BackendFaulted(r)) =>
                  /\ response[r].success
                  /\ \A i \in CallsOf(r, {"createCustomToken"}) :
                        \A q \in Reqs \ {r} :
                            (response[q].success /\ tokenInfo[q].sub = tokenInfo[r].sub)
                                => calls[r][i].target = response[q].uid

C4_Witness ==
    \E r, q \in Reqs :
        /\ r # q
        /\ RepeatedExchange(r)
        /\ response[q].success /\ tokenInfo[q].sub = tokenInfo[r].sub
        /\ Made(q, "createUser")
        /\ response[r].success
        /\ response[r].uid = response[q].uid

\* C5: a request with no authgear_token, or an empty one, is answered 400
\* MISSING_TOKEN and makes no remote call at all
C5_MissingTokenNoCalls ==
    \A r \in Reqs :
        (pc[r] # "idle" /\ ~Supplied(authgear_token[r])) =>
            /\ response[r].status = 400
            /\ response[r].code = "MISSING_TOKEN"
            /\ calls[r] = <<>>
            /\ sent[r] = 1

C5_Witness ==
    \E r \in Reqs : pc[r] = "done" /\ authgear_token[r] = "" /\ response[r].status = 400

\* the positions of the login_id identities in the detail answer
LoginIds(details) ==
    IF details.hasIdentities
    THEN {i \in DOMAIN details.identities : details.identities[i].type = "login_id"}
    ELSE {}

HasLoginId(details) == LoginIds(details) # {}

\* the first identity of type login_id
FirstLoginId(details) ==
    details.identities[CHOOSE i \in LoginIds(details) : \A j \in LoginIds(details) : i <= j]

LoginClaim(details, field) ==
    IF HasLoginId(details) /\ FirstLoginId(details).claims.present
    THEN FirstLoginId(details).claims[field]
    ELSE Undefined

BothLookupsAnswered(r) == Answered(r, "userinfo") /\ Answered(r, "userdetails")

\* C6: when the profile supplies no email and the first login_id identity
\* supplies neither an email nor a phone number (or there is none), the request
\* is answered 400 and makes no updateUser, createUser or createCustomToken call
NoContact(profile, details) ==
    /\ ~Supplied(profile.email)
    /\ ~Supplied(LoginClaim(details, "email"))
    /\ ~Supplied(LoginClaim(details, "phone_number"))

C6_IncompleteIdentityRejected ==
    \A r \in Reqs :
        (BothLookupsAnswered(r) /\ NoContact(userInfo[r], userDetails[r])) =>
            /\ pc[r] = "done"
            /\ response[r].status = 400
            /\ ~response[r].success
            /\ CallsOf(r, BackendOps) = {}

C6_Witness ==
    \E r \in Reqs :
        /\ BothLookupsAnswered(r)
        /\ userInfo[r].email = ""
        /\ Len(userDetails[r].identities) = 2
        /\ userDetails[r].identities[1].claims.email = "b@x.com"
        /\ userDetails[r].identities[1].type = "oauth"
        /\ userDetails[r].identities[2].type = "login_id"
        /\ NoContact(userInfo[r], userDetails[r])
        /\ response[r].code = "MISSING_USER_IDENTIFIER"

\* C7: the resolved identifier is the profile's email when the profile supplies
\* one, otherwise the email of the first login_id identity, otherwise that
\* identity's phone number, otherwise nothing
C7_MergeRule ==
    \A r \in Reqs :
        BothLookupsAnswered(r) =>
            LET profile == userInfo[r]
                details == userDetails[r]
            IN  IF Supplied(profile.email) THEN email[r] = profile.email
                ELSE IF Supplied(LoginClaim(details, "email"))
                     THEN email[r] = LoginClaim(details, "email")
                ELSE IF Supplied(LoginClaim(details, "phone_number"))
                     THEN email[r] = LoginClaim(details, "phone_number")
                ELSE ~Supplied(email[r])

C7_Witness ==
    \E r \in Reqs :
        /\ BothLookupsAnswered(r)
        /\ userInfo[r].email = "a@x.com"
        /\ LoginClaim(userDetails[r], "email") = "b@x.com"
        /\ email[r] = "a@x.com"
        /\ Made(r, "updateUser")

\* C8: every id a request passes to updateUser, createUser and createCustomToken
\* and returns in its response is "authgear:" followed by the subject that
\* introspection returned, so requests for one subject use one id
UsesId(r, id) ==
    /\ \A i \in DOMAIN calls[r] : calls[r][i].op \in BackendOps => calls[r][i].target = id
    /\ response[r].success => response[r].uid = id

C8_InternalIdDeterministic ==
    /\ \A r \in Reqs :
          /\ firebaseUid[r] # Undefined => UsesId(r, firebaseUid[r])
          /\ firebaseUid[r] = Undefined => (CallsOf(r, BackendOps) = {} /\ ~response[r].success)
          /\ (firebaseUid[r] # Undefined /\ tokenInfo[r].sub # Undefined)
                => firebaseUid[r] = "authgear:" \o tokenInfo[r].sub
    /\ \A r, q \in Reqs :
          (tokenInfo[r].sub = tokenInfo[q].sub /\ firebaseUid[r] # Undefined)
              => UsesId(q, firebaseUid[r])

C8_Witness ==
    \E r, q \in Reqs :
        /\ r # q
        /\ tokenInfo[r].sub = "u2" /\ tokenInfo[q].sub = "u2"
        /\ Made(r, "updateUser") /\ Made(r, "createUser") /\ Made(r, "createCustomToken")
        /\ response[r].success /\ response[q].success
        /\ response[r].uid = "authgear:u2" /\ response[q].uid = "authgear:u2"

\* C9: a request whose introspection answer is active: true with no subject
\* is answered 502 and makes no updateUser, createUser or createCustomToken call
ActiveWithoutSubject(r) ==
    /\ Answered(r, "introspect")
    /\ tokenInfo[r].data /\ tokenInfo[r].hasActive /\ tokenInfo[r].active
    /\ tokenInfo[r].sub = Undefined

C9_MissingSubjectIsUpstreamError ==
    \A r \in Reqs :
        ActiveWithoutSubject(r) =>
            /\ CallsOf(r, BackendOps) = {}
            /\ pc[r] = "done" => response[r].status = 502

\* C10: when updateUser fails with anything but the not-found signal, the
\* request calls neither createUser nor createCustomToken and ends with an
\* error response
UpdateFailedOtherwise(r) ==
    \E i \in CallsOf(r, {"updateUser"}) :
        /\ calls[r][i].settled = "rejected"
        /\ calls[r][i].error # "auth/user-not-found"

C10_UpdateFailureIsFatal ==
    \A r \in Reqs :
        UpdateFailedOtherwise(r) =>
            /\ ~Made(r, "createUser")
            /\ ~Made(r, "createCustomToken")
            /\ pc[r] = "done"
            /\ ~response[r].success
            /\ response[r].status >= 400

C10_Witness ==
    \E r \in Reqs :
        /\ UpdateFailedOtherwise(r)
        /\ pc[r] = "done"
        /\ response[r].status = 500

\* C11: every failure of updateUser (other than not-found), of createUser and
\* of createCustomToken is answered 500, whatever code the error carries
ProvisionOrMintFailed(r) ==
    \/ UpdateFailedOtherwise(r)
    \/ Rejected(r, "createUser")
    \/ Rejected(r, "createCustomToken")

C11_BackendFailureIs500 ==
    \A r \in Reqs :
        ProvisionOrMintFailed(r) => (pc[r] = "done" /\ response[r].status = 500)

\* C12: when either identity lookup is rejected, whichever it is and whatever
\* the other one did, the request is answered 502, keeps no identity and makes
\* no updateUser, createUser or createCustomToken call
LookupFailed(r) == Rejected(r, "userinfo") \/ Rejected(r, "userdetails")

C12_LookupFailureIs502 ==
    \A r \in Reqs :
        LookupFailed(r) =>
            /\ pc[r] = "done"
            /\ response[r].status = 502
            /\ ~response[r].success
            /\ CallsOf(r, BackendOps) = {}
            /\ email[r] = Undefined
            /\ firebaseUid[r] = Undefined

\* the detail lookup alone failed, the profile lookup was answered
C12_Witness ==
    \E r \in Reqs :
        /\ Answered(r, "userinfo")
        /\ Rejected(r, "userdetails")
        /\ response[r].status = 502
        /\ response[r].code = "AUTHGEAR_USER_DETAILS_ERROR"

\* C13: the status of the verification stage follows the introspection outcome:
\* an answer that does not say active: true gives 401, a rejected call (timeout,
\* connection failure, non-2xx) gives 502 or 504, and 401 is given for nothing
\* else
C13_VerificationStatus ==
    \A r \in Reqs :
        /\ (Answered(r, "introspect") /\ SaysInactive(tokenInfo[r])) =>
               (pc[r] = "done" /\ response[r].status = 401)
        /\ Rejected(r, "introspect") =>
               (pc[r] = "done" /\ response[r].status \in {502, 504} /\ ~response[r].success)
        /\ response[r].status = 401 =>
               (Answered(r, "introspect") /\ SaysInactive(tokenInfo[r]))

\* the introspection call timed out and the second handler answered 504
C13_Witness ==
    \E r \in Reqs :
        /\ Rejected(r, "introspect")
        /\ response[r].status = 504
        /\ response[r].code = "AUTHGEAR_TIMEOUT"

\* C14: two runs of the same request that differ only in the error attached to
\* a failing updateUser, createUser or createCustomToken call are answered with
\* the same status, error and code
FailedAt(r, op) ==
    /\ pc[r] = "done"
    /\ calls[r] # <<>>
    /\ calls[r][Len(calls[r])].op = op
    /\ calls[r][Len(calls[r])].settled = "rejected"

SameRunButForError(r, q) ==
    /\ authgear_token[r] = authgear_token[q]
    /\ Len(calls[r]) = Len(calls[q])
    /\ \A i \in DOMAIN calls[r] :
           \/ calls[r][i] = calls[q][i]
           \/ /\ i = Len(calls[r])
              /\ [calls[r][i] EXCEPT !.error = Undefined]
                     = [calls[q][i] EXCEPT !.error = Undefined]

C14_ErrorResponseIgnoresBackendDetail ==
    \A r \in Reqs : \A q \in Reqs :
        (/\ \E op \in BackendOps : FailedAt(r, op) /\ FailedAt(q, op)
         /\ SameRunButForError(r, q)) =>
            /\ response[r].status = response[q].status
            /\ response[r].error = response[q].error
            /\ response[r].code = response[q].code

\* C15: within one request each remote operation is called at most once,
\* whatever any call answered
RemoteOps == ProviderOps \cup BackendOps

C15_EachCallAtMostOnce ==
    \A r \in Reqs : \A op \in RemoteOps : Cardinality(CallsOf(r, {op})) <= 1

\* a request that ended on a rejected createUser call after five calls
C15_Witness ==
    \E r \in Reqs :
        /\ pc[r] = "done"
        /\ Rejected(r, "createUser")
        /\ Rejected(r, "updateUser")
        /\ Len(calls[r]) = 5

\* C16: no step removes a user record, a record once present stays present,
\* and every record written or asked to be written is marked verified
WritesVerified ==
    /\ \A u \in users : u.emailVerified
    /\ \A r \in Reqs : \A i \in CallsOf(r, {"updateUser", "createUser"}) :
           calls[r][i].attrs.emailVerified

RecordsKept == \A u \in users : HasUser(users', u.uid)

C16_RecordsKeptAndVerified == []WritesVerified /\ [][RecordsKept]_vars

\* a record written by createUser has been rewritten by a later updateUser
C16_Witness ==
    \E r \in Reqs : \E q \in Reqs :
        /\ Answered(r, "createUser")
        /\ Answered(q, "updateUser")
        /\ HasUser(users, firebaseUid[r])
        /\ firebaseUid[q] = firebaseUid[r]

\* C17: within one request the stages run in order and each starts only after
\* the one before it succeeded: lookups after an active introspection answer,
\* updateUser after both lookups were answered, createCustomToken after
\* updateUser or createUser succeeded, the success response after
\* createCustomToken succeeded; after a failed stage no later-stage call
StageOf(op) ==
    CASE op = "introspect" -> 1
      [] op \in {"userinfo", "userdetails"} -> 2
      [] op \in {"updateUser", "createUser"} -> 3
      [] op = "createCustomToken" -> 4

CallFailed(c) ==
    /\ c.settled = "rejected"
    /\ ~(c.op = "updateUser" /\ c.error = "auth/user-not-found")

C17_StagesInOrder ==
    \A r \in Reqs :
        /\ (Made(r, "userinfo") \/ Made(r, "userdetails")) =>
               (Answered(r, "introspect") /\ ~SaysInactive(tokenInfo[r]))
        /\ Made(r, "updateUser") =>
               (Answered(r, "userinfo") /\ Answered(r, "userdetails"))
        /\ Made(r, "createUser") => Rejected(r, "updateUser")
        /\ Made(r, "createCustomToken") =>
               (Answered(r, "updateUser") \/ Answered(r, "createUser"))
        /\ response[r].success => Answered(r, "createCustomToken")
        /\ \A i \in DOMAIN calls[r] : \A j \in DOMAIN calls[r] :
               i < j =>
                   /\ StageOf(calls[r][i].op) <= StageOf(calls[r][j].op)
                   /\ CallFailed(calls[r][i]) =>
                          StageOf(calls[r][j].op) = StageOf(calls[r][i].op)
                   /\ calls[r][i].settled = "pending" =>
                          StageOf(calls[r][j].op) = StageOf(calls[r][i].op)

\* a request that went through every stage, createUser included
C17_Witness ==
    \E r \in Reqs :
        /\ response[r].success
        /\ Answered(r, "createUser")
        /\ Len(calls[r]) = 6

\* C18: a first exchange of a subject, with no concurrent request, calls
\* updateUser before any other backend operation; updateUser is rejected with
\* not-found (the backend having no fault of its own); createUser is then
\* called exactly once with the uid, email and display name given to
\* updateUser; the request then mints a credential and returns success
FirstExchange(r) ==
    /\ Made(r, "updateUser")
    /\ firebaseUid[r] \notin uidsAtStart[r]
    /\ ~overlapped[r]

NotFoundAnswered(r) ==
    \E i \in CallsOf(r, {"updateUser"}) :
        calls[r][i].settled = "rejected" /\ calls[r][i].error = "auth/user-not-found"

C18_FirstExchangeCreates ==
    \A r \in Reqs :
        FirstExchange(r) =>
            /\ \A i \in CallsOf(r, BackendOps) :
                   \E j \in CallsOf(r, {"updateUser"}) : j <= i
            /\ ~Answered(r, "updateUser")
            /\ (Rejected(r, "updateUser") /\ ~BackendFaulted(r)) => NotFoundAnswered(r)
            /\ NotFoundAnswered(r) =>
                   /\ Cardinality(CallsOf(r, {"createUser"})) = 1
                   /\ \A i \in CallsOf(r, {"updateUser"}) :
                          \A j \in CallsOf(r, {"createUser"}) :
                              /\ i < j
                              /\ calls[r][j].target = calls[r][i].target
                              /\ calls[r][j].attrs.email = calls[r][i].attrs.email
                              /\ calls[r][j].attrs.displayName = calls[r][i].attrs.displayName
            /\ (pc[r] = "done" /\ ~BackendFaulted(r)) =>
                   /\ Answered(r, "createUser")
                   /\ Answered(r, "createCustomToken")
                   /\ response[r].success
                   /\ response[r].status = 200
                   /\ HasUser(users, response[r].uid)

\* a first exchange that ran alone, created the record and returned success
C18_Witness ==
    \E r \in Reqs :
        /\ FirstExchange(r)
        /\ NotFoundAnswered(r)
        /\ Answered(r, "createUser")
        /\ response[r].success
        /\ name[r] = "Jo"

\* C19: when a request has returned success, a record for the uid named in the
\* response exists, the credential in the response was minted for that uid by
\* a call made after the request's write of the record succeeded, and the
\* email in the response is the email that write carried
WritesOf(r) ==
    {i \in CallsOf(r, {"updateUser", "createUser"}) : calls[r][i].settled = "ok"}

C19_SuccessMeansProvisioned ==
    \A r \in Reqs :
        response[r].success =>
            /\ HasUser(users, response[r].uid)
            /\ response[r].firebaseToken = "jwt:" \o response[r].uid
            /\ WritesOf(r) # {}
            /\ \A i \in WritesOf(r) :
                   /\ calls[r][i].target = response[r].uid
                   /\ calls[r][i].attrs.email = response[r].email
                   /\ \E j \in CallsOf(r, {"createCustomToken"}) :
                          /\ i < j
                          /\ calls[r][j].settled = "ok"
                          /\ calls[r][j].target = response[r].uid

\* a success whose email came from the detail lookup's login identity
C19_Witness ==
    \E r \in Reqs :
        /\ response[r].success
        /\ response[r].email = "b@x.com"
        /\ HasUser(users, response[r].uid)
        /\ \E q \in Reqs \ {r} : response[q].success /\ response[q].email = "a@x.com"

\* C20: every request that arrived ends with exactly one response: provided
\* every remote call eventually settles the handler eventually responds, a
\* handler that has ended has sent one response, and none sends two
OneResponse ==
    \A r \in Reqs :
        /\ sent[r] <= 1
        /\ (pc[r] = "done") <=> (sent[r] = 1)
        /\ (sent[r] = 1) <=> (response[r] # NoResponse)

C20_ExactlyOneResponse ==
    /\ []OneResponse
    /\ \A r \in Reqs : (pc[r] # "idle") ~> (pc[r] = "done" /\ sent[r] = 1)

\* a request answered once after createCustomToken was rejected, another
\* answered once for a missing token
C20_Witness ==
    \E r \in Reqs : \E q \in Reqs :
        /\ pc[r] = "done" /\ sent[r] = 1 /\ Rejected(r, "createCustomToken")
        /\ pc[q] = "done" /\ sent[q] = 1 /\ calls[q] = <<>>

\* C21: over any sequence of calls on the client handles, the getter throws
\* its not-initialized error exactly when no earlier initialize call returned;
\* once an initialize call has returned, every later one returns the same
\* handle without running the set-up again; an initialize call that fails
\* throws the set-up's own error and leaves the handle unset, so the next
\* initialize call runs the set-up again
EarlierSuccess(i, init) ==
    \E j \in 1..(i - 1) : trace[j].fn = init /\ ~trace[j].threw

GetterFollowsInit(i, getter, init, message) ==
    trace[i].fn = getter =>
        /\ trace[i].threw <=> ~EarlierSuccess(i, init)
        /\ trace[i].threw => trace[i].value = message
        /\ ~trace[i].threw =>
               \A j \in 1..(i - 1) :
                   (trace[j].fn = init /\ ~trace[j].threw) => trace[i].value = trace[j].value

InitOnce(i, init, getterMessage) ==
    trace[i].fn = init =>
        /\ EarlierSuccess(i, init) =>
               /\ ~trace[i].threw
               /\ ~trace[i].attempted
               /\ \A j \in 1..(i - 1) :
                      (trace[j].fn = init /\ ~trace[j].threw) =>
                          trace[i].value = trace[j].value
        /\ ~EarlierSuccess(i, init) => trace[i].attempted
        /\ trace[i].threw => trace[i].value # getterMessage

C21_InitialiseOnce ==
    /\ \A i \in DOMAIN trace :
           /\ GetterFollowsInit(i, "getAdmin", "initializeFirebaseAdmin",
                                "Firebase Admin not initialized")
           /\ GetterFollowsInit(i, "getAuthgearClient", "initializeAuthgear",
                                "Authgear client not initialized")
           /\ InitOnce(i, "initializeFirebaseAdmin", "Firebase Admin not initialized")
           /\ InitOnce(i, "initializeAuthgear", "Authgear client not initialized")
    /\ firebaseAdminInitialized <=> EarlierSuccess(Len(trace) + 1, "initializeFirebaseAdmin")
    /\ apps = IF firebaseAdminInitialized THEN 1 ELSE 0
    /\ (authgearClient # Undefined) <=> EarlierSuccess(Len(trace) + 1, "initializeAuthgear")

\* initialize failed, the next one ran the set-up and returned, a third one
\* returned the handle without set-up, and the getter returned it
C21_Witness ==
    /\ Len(trace) = 4
    /\ trace[1] = Thrown("initializeFirebaseAdmin", "app/invalid-credential", TRUE)
    /\ trace[2] = Returned("initializeFirebaseAdmin", Admin, TRUE)
    /\ trace[3] = Returned("initializeFirebaseAdmin", Admin, FALSE)
    /\ trace[4] = Returned("getAdmin", Admin, FALSE)

====
